---- MODULE Spec2Model ----
(***************************************************************************)
(* A model of qoder_reset_gui.py: the process probe, the four reset        *)
(* operations of QoderResetGUI and the file operations they perform on the *)
(* target application's data directory.                                    *)
(*                                                                         *)
(* The data directory is a tree fs: a function from the paths that exist   *)
(* (sequences of names, relative to the data directory, <<>> being the     *)
(* directory itself) to nodes.  The target application starts and stops on *)
(* its own (qoder_running); each handler is a sequence of steps (pc), one  *)
(* per probe, dialog and file operation, so the application may start      *)
(* between any two of them.                                                *)
(***************************************************************************)
EXTENDS Integers, Sequences, FiniteSets, TLC

VARIABLES
    fs,             \* the data directory: path -> node, for the paths that exist
    denied,         \* the paths whose removal or opening for writing the OS refuses
    qoder_running,  \* whether the target application is running now
    pc,             \* position of the handler in progress ("idle" when none)
    op,             \* the handler in progress
    is_running,     \* local is_running of the handler (result of its last probe)
    reply,          \* local reply of the handler (answer to its last question box)
    preserve_chat,  \* state of preserve_chat_checkbox
    data,           \* local data: the object loaded from storage.json
    new_ids,        \* locals new_machine_id / machine_id_hash, device_id
    idx,            \* loop index inside the list being processed
    listing,        \* a directory listing taken by glob / iterdir
    count,          \* local cleaned / identity_cleaned / cleaned_count / cleared
    log,            \* self.log lines of the handler in progress
    boxes,          \* message boxes shown by the handler in progress
    result,         \* how the handler returned
    fs0,            \* fs when the handler was invoked
    ops,            \* number of handlers invoked so far
    host,           \* what the module-level functions find: OS, home, APPDATA, commands
    ret             \* what the last call of a module-level function returned

vars == <<fs, denied, qoder_running, pc, op, is_running, reply, preserve_chat,
          data, new_ids, idx, listing, count, log, boxes, result, fs0, ops, host, ret>>

\* Bounds of the model.
MaxOps == 2
MaxUuid == 6

(***************************************************************************)
(* Paths and nodes                                                         *)
(***************************************************************************)
Root == <<>>
MachineIdFile == <<"machineid">>
StorageJsonFile == <<"User", "globalStorage", "storage.json">>

IsPrefix(d, p) == Len(d) <= Len(p) /\ SubSeq(p, 1, Len(d)) = d
Parent(p) == SubSeq(p, 1, Len(p) - 1)

EmptyObj == [k \in {} |-> ""]

\* File contents.  A text is plain (not JSON), a JSON object with its members
\* and its formatting, a JSON value that is no object, or the prefix that an
\* interrupted json.dump left behind.
PlainText(s) == [form |-> "plain", str |-> s, obj |-> EmptyObj, style |-> "none"]
JsonObject(o, st) == [form |-> "object", str |-> "", obj |-> o, style |-> st]
JsonArray == [form |-> "array", str |-> "", obj |-> EmptyObj, style |-> "app"]
PartialJson == [form |-> "partial", str |-> "", obj |-> EmptyObj, style |-> "indent4"]
EmptyText == PlainText("")

DirNode == [dir |-> TRUE, text |-> EmptyText]
FileNode(t) == [dir |-> FALSE, text |-> t]

Exists(f, p) == p \in DOMAIN f
Under(f, d) == {p \in DOMAIN f : IsPrefix(d, p) /\ p # d}

\* f with the paths of S gone
Without(f, S) == [p \in (DOMAIN f) \ S |-> f[p]]
\* f with file p holding text t
WithFile(f, p, t) == [q \in (DOMAIN f) \cup {p} |-> IF q = p THEN FileNode(t) ELSE f[q]]

(***************************************************************************)
(* Identifiers: uuid.uuid4 and hashlib.sha256                              *)
(***************************************************************************)
\* The canonical text of the n-th UUID of the pool.
UuidText(n) == "uuid4-" \o ToString(n)
UuidStrings == {UuidText(n) : n \in 1..MaxUuid}

\* hashlib.sha256(s.encode()).hexdigest(): 64 lowercase hex digits, a function of s.
Sha256Hex(s) == "sha256hex:" \o s
Hex64Strings == {Sha256Hex(u) : u \in UuidStrings}

\* The UUIDs that occur, plain or hashed, in the texts of f or among ids.
UuidsInUse(f, ids) ==
    {u \in UuidStrings :
        \/ \E i \in 1..Len(ids) : ids[i] = u
        \/ \E p \in DOMAIN f :
              \/ f[p].text.str = u
              \/ \E k \in DOMAIN f[p].text.obj : f[p].text.obj[k] \in {u, Sha256Hex(u)}}

\* str(uuid.uuid4()): a random 122-bit draw.  A draw is taken to be fresh: it
\* equals no identifier held in the data directory or drawn earlier by the
\* handler (a collision is outside the model).  Identifiers are only compared
\* for equality, so the least unused one of the pool stands for any fresh draw.
Uuid4(f, ids) ==
    LET used == UuidsInUse(f, ids)
        n == CHOOSE i \in 1..MaxUuid :
                /\ UuidText(i) \notin used
                /\ \A j \in 1..(i - 1) : UuidText(j) \in used
    IN  UuidText(n)

(***************************************************************************)
(* storage.json: json.load, the telemetry keys, json.dump                  *)
(***************************************************************************)
\* Keys are sequences of characters: clear_chat_history looks inside them.
KeyMachineId ==
    <<"t","e","l","e","m","e","t","r","y",".","m","a","c","h","i","n","e","I","d">>
KeyDevDeviceId ==
    <<"t","e","l","e","m","e","t","r","y",".","d","e","v","D","e","v","i","c","e","I","d">>

\* A string value that json.load accepts (the escape \ud800) and that a
\* UTF-8 text file refuses to encode.
LoneSurrogate == "\\ud800"

\* A number beyond the range of a double: float() reads it as inf, and
\* json.dump writes inf as Infinity.
HugeNumber == "1e400"
parse_float(v) == IF v = HugeNumber THEN "Infinity" ELSE v

\* json.load(f): the object read (its numbers as Python reads them), or the
\* exception raised.
JsonLoad(t) ==
    CASE t.form = "object" ->
            [raised |-> FALSE, dict |-> TRUE,
             obj |-> [k \in DOMAIN t.obj |-> parse_float(t.obj[k])]]
      [] t.form = "array" -> [raised |-> FALSE, dict |-> FALSE, obj |-> EmptyObj]
      [] OTHER -> [raised |-> TRUE, dict |-> FALSE, obj |-> EmptyObj]

\* data[k] = v
SetKey(o, k, v) == [x \in (DOMAIN o) \cup {k} |-> IF x = k THEN v ELSE o[x]]

\* data['telemetry.machineId'] = machine_id_hash; data['telemetry.devDeviceId'] = device_id
SetTelemetry(o, new_uuid, device_id) ==
    SetKey(SetKey(o, KeyMachineId, Sha256Hex(new_uuid)), KeyDevDeviceId, device_id)

\* Whether json.dump(data, f, indent=4, ensure_ascii=False) into a UTF-8 file
\* gets through: ensure_ascii=False hands every character to the encoder.
Encodable(o) == \A k \in DOMAIN o : o[k] # LoneSurrogate

\* What json.dump leaves in the (already truncated) file.
JsonDump(o) == IF Encodable(o) THEN JsonObject(o, "indent4") ELSE PartialJson

\* open(path, 'w'): refused, or the file is there and empty.
OpenWriteFails(f, dn, p) == p \in dn \/ (Exists(f, p) /\ f[p].dir)
OpenWrite(f, p) == WithFile(f, p, EmptyText)

(***************************************************************************)
(* Removal: Path.unlink and shutil.rmtree                                  *)
(***************************************************************************)
UnlinkFails(f, dn, p) == p \in dn \/ f[p].dir
RmtreeFails(f, dn, d) == d \in dn \/ ~f[d].dir \/ Under(f, d) \cap dn # {}

\* What a failing rmtree may already have removed: it removes children before
\* their directory and stops at the first refusal.
PartialRemovals(f, dn, d) ==
    IF ~f[d].dir THEN {{}}
    ELSE {S \in SUBSET (Under(f, d) \ dn) : \A p \in S : Under(f, p) \subseteq S}

\* The outcomes of removing entry e: the tree afterwards, and whether it raised.
RemoveOutcomes(f, dn, e) ==
    IF e.how = "unlink"
    THEN IF UnlinkFails(f, dn, e.path)
         THEN {[fs |-> f, ok |-> FALSE]}
         ELSE {[fs |-> Without(f, {e.path}), ok |-> TRUE]}
    ELSE IF RmtreeFails(f, dn, e.path)
         THEN {[fs |-> Without(f, S), ok |-> FALSE] : S \in PartialRemovals(f, dn, e.path)}
         ELSE {[fs |-> Without(f, {e.path} \cup Under(f, e.path)), ok |-> TRUE]}

(***************************************************************************)
(* check_process_running                                                   *)
(***************************************************************************)
Systems == {"Darwin", "Linux", "Windows", "Other"}

\* What subprocess.run can do for the native command (pgrep -f, tasklist):
\* raise, or return with a return code and an output that names the process
\* or not.  pgrep exits 0 on a match, 1 on none, 2 or 3 on an error; tasklist
\* exits 0 with or without a match.
NativeOutcomes(system, running) ==
    LET r(raises, rc, named) ==
            [raises |-> raises, returncode |-> rc, named |-> named,
             pids |-> IF named THEN <<"4242">> ELSE <<>>]
    IN  CASE system \in {"Darwin", "Linux"} ->
                {r(TRUE, 0, FALSE), r(FALSE, 2, FALSE)}
                    \cup (IF running THEN {r(FALSE, 0, TRUE)} ELSE {r(FALSE, 1, FALSE)})
          [] system = "Windows" ->
                {r(TRUE, 0, FALSE), r(FALSE, 1, FALSE)}
                    \cup (IF running THEN {r(FALSE, 0, TRUE)} ELSE {r(FALSE, 0, FALSE)})
          [] OTHER -> {r(FALSE, 0, FALSE)}

\* What psutil can do: be absent (ImportError), raise while iterating (a
\* process whose name is None), or list the matching processes.
FallbackOutcomes(running) ==
    {[state |-> "unavailable", pids |-> <<>>],
     [state |-> "raises", pids |-> <<>>],
     [state |-> "listed", pids |-> IF running THEN <<"4242">> ELSE <<>>]}

ProbeResult(raised, running, pids) == [raised |-> raised, running |-> running, pids |-> pids]

\* The except branch: psutil, if installed.
psutil_fallback(alt) ==
    CASE alt.state = "unavailable" -> ProbeResult(FALSE, FALSE, <<>>)
      [] alt.state = "raises" -> ProbeResult(TRUE, FALSE, <<>>)
      [] OTHER -> IF alt.pids # <<>>
                  THEN ProbeResult(FALSE, TRUE, alt.pids)
                  ELSE ProbeResult(FALSE, FALSE, <<>>)

check_process_running(system, nat, alt) ==
    IF system \in {"Darwin", "Linux"}
    THEN IF nat.raises THEN psutil_fallback(alt)
         ELSE IF nat.returncode = 0 THEN ProbeResult(FALSE, TRUE, nat.pids)
         ELSE ProbeResult(FALSE, FALSE, <<>>)
    ELSE IF system = "Windows"
    THEN IF nat.raises THEN psutil_fallback(alt)
         ELSE IF nat.returncode = 0 /\ nat.named THEN ProbeResult(FALSE, TRUE, nat.pids)
         ELSE ProbeResult(FALSE, FALSE, <<>>)
    ELSE ProbeResult(FALSE, FALSE, <<>>)

\* self.check_qoder_running(), with everything the host can answer.
check_qoder_running(running) ==
    UNION {{check_process_running(system, nat, alt) :
                nat \in NativeOutcomes(system, running), alt \in FallbackOutcomes(running)} :
           system \in Systems}

(***************************************************************************)
(* get_qoder_data_dir                                                      *)
(***************************************************************************)
\* os.getenv('APPDATA'): None, or a string (a path, possibly the empty one).
Appdata(set, path) == [set |-> set, path |-> path]

\* get_qoder_data_dir with APPDATA used whenever it is set, empty or not.
get_qoder_data_dir_AnyAppdata(system, home_dir, appdata) ==
    IF system = "Darwin" THEN home_dir \o <<"Library", "Application Support", "Qoder">>
    ELSE IF system = "Windows"
    THEN IF appdata.set
         THEN appdata.path \o <<"Qoder">>
         ELSE home_dir \o <<"AppData", "Roaming", "Qoder">>
    ELSE IF system = "Linux" THEN home_dir \o <<".config", "Qoder">>
    ELSE home_dir \o <<"Qoder">>

\* The path of the data directory, as a sequence of names; `if appdata:` is
\* false for None and for the empty string.
get_qoder_data_dir(system, home_dir, appdata) ==
    IF system = "Darwin" THEN home_dir \o <<"Library", "Application Support", "Qoder">>
    ELSE IF system = "Windows"
    THEN IF appdata.set /\ appdata.path # <<>>
         THEN appdata.path \o <<"Qoder">>
         ELSE home_dir \o <<"AppData", "Roaming", "Qoder">>
    ELSE IF system = "Linux" THEN home_dir \o <<".config", "Qoder">>
    ELSE home_dir \o <<"Qoder">>

(***************************************************************************)
(* The cleanup lists of perform_full_reset, perform_advanced_identity_     *)
(* cleanup and clear_chat_history                                          *)
(***************************************************************************)
\* One entry of a list: the path, how it is removed, and the directory whose
\* existence the code tests before it enters the list.
Entry(path, how, guard) == [path |-> path, how |-> how, guard |-> guard]

RootEntries(names, how) == [i \in 1..Len(names) |-> Entry(<<names[i]>>, how, Root)]
SubEntries(d, names, how) == [i \in 1..Len(names) |-> Entry(d \o <<names[i]>>, how, d)]

cache_dirs ==
    <<"Cache", "blob_storage", "Code Cache", "SharedClientCache",
      "GPUCache", "DawnGraphiteCache", "DawnWebGPUCache">>

identity_files ==
    <<"Network Persistent State", "Cookies", "Cookies-journal",
      "SharedStorage", "SharedStorage-wal", "Trust Tokens", "Trust Tokens-journal",
      "TransportSecurity", "Preferences", "Local State", "NetworkDataMigrated">>

network_dir == <<"Network">>
network_files ==
    <<"Cookies", "Cookies-journal", "Network Persistent State", "NetworkDataMigrated",
      "TransportSecurity", "Trust Tokens", "Trust Tokens-journal">>

storage_dirs ==
    <<"Local Storage", "Session Storage", "WebStorage", "Shared Dictionary",
      "Service Worker", "clp", "logs", "Backups", "CachedExtensionVSIXs">>

shared_cache == <<"SharedClientCache">>
critical_files == <<".info", ".lock", "mcp.json">>
system_files == <<"code.lock", "languagepacks.json">>
cached_dirs == <<"CachedData", "CachedProfilesData">>

\* advanced_entries with SharedClientCache removed as a whole.
advanced_entries_WholeSharedCache ==
    RootEntries(<<"SharedClientCache">>, "rmtree")
        \o RootEntries(system_files, "unlink")
        \o RootEntries(<<"Crashpad">>, "rmtree")
        \o RootEntries(cached_dirs, "rmtree")

\* The static part of perform_advanced_identity_cleanup, in its order.
advanced_entries ==
    SubEntries(shared_cache, critical_files, "unlink")
        \o SubEntries(shared_cache, <<"index", "cache">>, "rmtree")
        \o RootEntries(system_files, "unlink")
        \o RootEntries(<<"Crashpad">>, "rmtree")
        \o RootEntries(cached_dirs, "rmtree")

\* glob.glob(qoder_support_dir / "*.sock"): the names of the listing that end
\* in .sock; a leading dot is matched by no wildcard.
SockStems == {"", "main", "1.0-main", ".hidden"}
HiddenStems == {"", ".hidden"}
MatchesSockPattern(name) ==
    \E st \in SockStems : name = st \o ".sock" /\ st \notin HiddenStems
GlobSock(f) == {p \in DOMAIN f : Len(p) = 1 /\ MatchesSockPattern(p[1])}

workspace_storage == <<"User", "workspaceStorage">>
\* workspace_storage.iterdir(), the directories among it
WorkspaceDirs(f) ==
    IF Exists(f, workspace_storage)
    THEN {p \in DOMAIN f : Len(p) = 3 /\ IsPrefix(workspace_storage, p) /\ f[p].dir}
    ELSE {}

\* The orders in which a listing can come back.
Orderings(S) ==
    {sq \in [1..Cardinality(S) -> S] : \A x \in S : \E i \in 1..Cardinality(S) : sq[i] = x}

RECURSIVE ChatEntries(_)
ChatEntries(ws) ==
    IF ws = <<>> THEN <<>>
    ELSE <<Entry(Head(ws) \o <<"chatSessions">>, "rmtree", Head(ws)),
           Entry(Head(ws) \o <<"chatEditingSessions">>, "rmtree", Head(ws))>>
             \o ChatEntries(Tail(ws))

chat_dirs ==
    <<Entry(<<"User", "History">>, "rmtree", Root),
      Entry(<<"Session Storage">>, "rmtree", Root)>>

\* The entries a phase goes through; ls is the listing taken when it began.
Entries(phase, ls) ==
    CASE phase = "cache" -> RootEntries(cache_dirs, "rmtree")
      [] phase = "identity" -> RootEntries(identity_files, "unlink")
      [] phase = "network" -> SubEntries(network_dir, network_files, "unlink")
      [] phase = "storage" -> RootEntries(storage_dirs, "rmtree")
      [] phase = "advanced" -> advanced_entries
      [] phase = "sockets" -> [i \in 1..Len(ls) |-> Entry(ls[i], "unlink", Root)]
      [] phase = "chat_ws" -> ChatEntries(ls)
      [] phase = "chat_dirs" -> chat_dirs
      [] OTHER -> <<>>

ListPhases == {"cache", "identity", "network", "storage", "advanced", "sockets",
               "chat_ws", "chat_dirs"}

\* The listings a phase can start from.
Listings(phase, f) ==
    CASE phase = "sockets" -> Orderings(GlobSock(f))
      [] phase = "chat_ws" -> Orderings(WorkspaceDirs(f))
      [] OTHER -> {<<>>}

\* if path.exists(), inside the guard of its list
Present(f, e) == Exists(f, e.guard) /\ Exists(f, e.path)

\* NextPresent with the list given up at the first entry that does not exist.
NextPresent_StopsAtMissing(es, f, i) ==
    IF i <= Len(es) /\ Present(f, es[i]) THEN i ELSE Len(es) + 1

\* The index of the first entry from i on that exists (Len + 1 when none does):
\* an entry that does not exist is passed over without any effect.
NextPresent(es, f, i) ==
    IF \E j \in i..Len(es) : Present(f, es[j])
    THEN CHOOSE j \in i..Len(es) :
            Present(f, es[j]) /\ \A k \in i..(j - 1) : ~Present(f, es[k])
    ELSE Len(es) + 1

(***************************************************************************)
(* The handlers                                                            *)
(***************************************************************************)
Handlers == {"reset_machine_id", "reset_telemetry", "deep_identity_cleanup",
             "one_click_reset"}
Confirmed == {"deep_identity_cleanup", "one_click_reset"}

\* A line of self.log (the separator lines are left out) and a QMessageBox.
L(ev, arg, n) == [ev |-> ev, arg |-> arg, n |-> n]
Line(ev) == L(ev, <<>>, 0)
B(icon, about, answer) == [icon |-> icon, about |-> about, answer |-> answer]

StillRunningLines == <<Line("still_running")>>
StillRunningBox == <<B("critical", "close_first", "Ok")>>
FailureLines == <<Line("failure")>>
FailureBox == <<B("critical", "failed", "Ok")>>
SuccessLines == <<Line("success")>>
SuccessBox == <<B("information", "success", "Ok")>>

\* A step of the handler: where it goes, how it ends, what it logs and shows.
Step(to, res, lines, bxs) ==
    /\ pc' = to
    /\ result' = res
    /\ log' = log \o lines
    /\ boxes' = boxes \o bxs
Goto(to, lines, bxs) == Step(to, result, lines, bxs)
Finish(res, lines, bxs) == Step("done", res, lines, bxs)

\* The host and the handler's frame: no step of a handler changes them.
Frame == <<denied, qoder_running, op, preserve_chat, fs0, ops, host, ret>>
Loop == <<idx, listing, count>>

\* AfterProbe with the re-check of the confirmed handlers not acted upon.
AfterProbe_NoRecheck(o, at, running) ==
    IF o \in Confirmed
    THEN IF at = "check" /\ running THEN "ask_close" ELSE "confirm"
    ELSE IF running THEN "abort"
         ELSE IF o = "reset_machine_id" THEN "mid_open" ELSE "tel_load"

\* AfterProbe with the two single-file handlers not gated by the probe.
AfterProbe_NoGate(o, at, running) ==
    IF o \in Confirmed
    THEN IF at = "check"
         THEN IF running THEN "ask_close" ELSE "confirm"
         ELSE IF running THEN "abort" ELSE "confirm"
    ELSE IF o = "reset_machine_id" THEN "mid_open" ELSE "tel_load"

\* Where a handler goes after a probe answered `running`: the place of the
\* probe (check, recheck) and the handler decide.
AfterProbe(o, at, running) ==
    IF o \in Confirmed
    THEN IF at = "check"
         THEN IF running THEN "ask_close" ELSE "confirm"
         ELSE IF running THEN "abort" ELSE "confirm"
    ELSE IF running THEN "abort"
         ELSE IF o = "reset_machine_id" THEN "mid_open" ELSE "tel_load"

\* AfterAnswer with the answer to the final question not looked at.
AfterAnswer_IgnoresNo(o, at, answer) ==
    IF at = "ask_close"
    THEN IF answer # "Yes" THEN "cancel" ELSE "recheck"
    ELSE IF o = "deep_identity_cleanup" THEN "deep_dir" ELSE "full_dir"

\* Where a confirmed handler goes after the operator answered a question.
AfterAnswer(o, at, answer) ==
    IF answer # "Yes" THEN "cancel"
    ELSE IF at = "ask_close" THEN "recheck"
    ELSE IF o = "deep_identity_cleanup" THEN "deep_dir" ELSE "full_dir"

\* The operator clicks a button: the handler starts.
Invoke(o) ==
    /\ pc = "idle"
    /\ ops < MaxOps
    /\ op' = o
    /\ ops' = ops + 1
    /\ fs0' = fs
    /\ preserve_chat' \in (IF o = "one_click_reset" THEN BOOLEAN ELSE {FALSE})
    /\ pc' = "check"
    /\ log' = <<L("begin", <<o>>, 0)>>
    /\ UNCHANGED <<fs, denied, qoder_running, is_running, reply, data, new_ids,
                   idx, listing, count, boxes, result, host, ret>>

\* The handler has returned and the operator has read its outcome.
Return ==
    /\ pc = "done"
    /\ pc' = "idle"
    /\ op' = "none"
    /\ is_running' = FALSE
    /\ reply' = "none"
    /\ preserve_chat' = FALSE
    /\ data' = EmptyObj
    /\ new_ids' = <<>>
    /\ idx' = 0
    /\ listing' = <<>>
    /\ count' = 0
    /\ log' = <<>>
    /\ boxes' = <<>>
    /\ result' = "none"
    /\ fs0' = fs
    /\ UNCHANGED <<fs, denied, qoder_running, ops, host, ret>>

\* The target application is started or quit, at any moment.
QoderStarts ==
    /\ ~qoder_running
    /\ qoder_running' = TRUE
    /\ UNCHANGED <<fs, denied, pc, op, is_running, reply, preserve_chat, data, new_ids,
                   idx, listing, count, log, boxes, result, fs0, ops, host, ret>>

QoderStops ==
    /\ qoder_running
    /\ qoder_running' = FALSE
    /\ UNCHANGED <<fs, denied, pc, op, is_running, reply, preserve_chat, data, new_ids,
                   idx, listing, count, log, boxes, result, fs0, ops, host, ret>>

\* is_running, pids = self.check_qoder_running(), and the branch on it.
Probe ==
    /\ pc \in {"check", "recheck"}
    /\ \E r \in check_qoder_running(qoder_running) :
          IF r.raised
          THEN /\ Finish("exception", <<>>, <<>>)
               /\ UNCHANGED is_running
          ELSE /\ is_running' = r.running
               /\ LET to == AfterProbe(op, pc, r.running)
                  IN  IF to = "abort"
                      THEN Finish("still_running", StillRunningLines, StillRunningBox)
                      ELSE Goto(to, <<>>, <<>>)
    /\ UNCHANGED <<fs, reply, data, new_ids>>
    /\ UNCHANGED Loop
    /\ UNCHANGED Frame

\* reply = QMessageBox.question(...): "close it, then Yes" and the final question.
Question ==
    /\ pc \in {"ask_close", "confirm"}
    /\ \E answer \in {"Yes", "No"} :
          /\ reply' = answer
          /\ LET to == AfterAnswer(op, pc, answer)
                 box == <<B("question", pc, answer)>>
             IN  IF to = "cancel"
                 THEN Finish("cancelled", <<Line("cancelled")>>, box)
                 ELSE Goto(to, <<>>, box)
    /\ UNCHANGED <<fs, is_running, data, new_ids>>
    /\ UNCHANGED Loop
    /\ UNCHANGED Frame

\* Entering a list phase: the listing is taken, the first existing entry found.
EnterList(phase, f) ==
    \E ls \in Listings(phase, f) :
        /\ listing' = ls
        /\ idx' = NextPresent(Entries(phase, ls), f, 1)

(***************************************************************************)
(* reset_machine_id                                                        *)
(***************************************************************************)
\* MachineIdBranch with a missing machine-ID file opened (and so created).
MachineIdBranch_Creates(f, dn) ==
    IF ~Exists(f, Root) THEN "no_dir"
    ELSE IF OpenWriteFails(f, dn, MachineIdFile) THEN "open_fails"
    ELSE "opened"

\* The branch taken on the data directory and the machine-ID file.
MachineIdBranch(f, dn) ==
    IF ~Exists(f, Root) THEN "no_dir"
    ELSE IF ~Exists(f, MachineIdFile) THEN "no_file"
    ELSE IF OpenWriteFails(f, dn, MachineIdFile) THEN "open_fails"
    ELSE "opened"

\* WriteMachineId with the write left out.
WriteMachineId_Nothing(f, id) == f

\* f.write(new_machine_id) into the opened file
WriteMachineId(f, id) == WithFile(f, MachineIdFile, PlainText(id))

reset_machine_id_open ==
    /\ pc = "mid_open"
    /\ LET br == MachineIdBranch(fs, denied)
       IN  CASE br = "opened" ->
                  /\ new_ids' = <<Uuid4(fs, <<>>)>>
                  /\ fs' = OpenWrite(fs, MachineIdFile)
                  /\ Goto("mid_write", <<>>, <<>>)
             [] br = "no_file" ->
                  /\ Finish("warning", <<Line("not_found")>>,
                            <<B("warning", "not_found", "Ok")>>)
                  /\ UNCHANGED <<fs, new_ids>>
             [] OTHER ->
                  /\ Finish("failure", FailureLines, FailureBox)
                  /\ UNCHANGED <<fs, new_ids>>
    /\ UNCHANGED <<is_running, reply, data>>
    /\ UNCHANGED Loop
    /\ UNCHANGED Frame

reset_machine_id_write ==
    /\ pc = "mid_write"
    /\ fs' = WriteMachineId(fs, new_ids[1])
    /\ Finish("success", SuccessLines, SuccessBox)
    /\ UNCHANGED <<is_running, reply, data, new_ids>>
    /\ UNCHANGED Loop
    /\ UNCHANGED Frame

(***************************************************************************)
(* reset_telemetry                                                         *)
(***************************************************************************)
\* TelemetryBranch with malformed content treated like a missing file.
TelemetryBranch_SkipsMalformed(f) ==
    IF ~Exists(f, StorageJsonFile) THEN "no_file"
    ELSE IF f[StorageJsonFile].dir THEN "read_fails"
    ELSE LET r == JsonLoad(f[StorageJsonFile].text)
         IN  IF r.raised THEN "no_file"
             ELSE IF ~r.dict THEN "type_error"
             ELSE "loaded"

\* The branch taken on storage.json up to the assignment of the two keys.
TelemetryBranch(f) ==
    IF ~Exists(f, StorageJsonFile) THEN "no_file"
    ELSE IF f[StorageJsonFile].dir THEN "read_fails"
    ELSE LET r == JsonLoad(f[StorageJsonFile].text)
         IN  IF r.raised THEN "parse_error"
             ELSE IF ~r.dict THEN "type_error"
             ELSE "loaded"

\* new_uuid, device_id: two draws
TelemetryIds(f) ==
    LET new_uuid == Uuid4(f, <<>>)
    IN  <<new_uuid, Uuid4(f, <<new_uuid>>)>>

\* data after the two assignments
NewTelemetry(f, ids) == SetTelemetry(JsonLoad(f[StorageJsonFile].text).obj, ids[1], ids[2])

\* json.dump(data, f, ...) into the opened file
WriteStorage(f, o) == WithFile(f, StorageJsonFile, JsonDump(o))

reset_telemetry_load ==
    /\ pc = "tel_load"
    /\ IF TelemetryBranch(fs) = "loaded"
       THEN /\ new_ids' = TelemetryIds(fs)
            /\ data' = NewTelemetry(fs, new_ids')
            /\ Goto("tel_open", <<>>, <<>>)
       ELSE /\ Finish("failure", FailureLines, FailureBox)
            /\ UNCHANGED <<data, new_ids>>
    /\ UNCHANGED <<fs, is_running, reply>>
    /\ UNCHANGED Loop
    /\ UNCHANGED Frame

reset_telemetry_open ==
    /\ pc = "tel_open"
    /\ IF OpenWriteFails(fs, denied, StorageJsonFile)
       THEN /\ Finish("failure", FailureLines, FailureBox)
            /\ UNCHANGED fs
       ELSE /\ fs' = OpenWrite(fs, StorageJsonFile)
            /\ Goto("tel_dump", <<>>, <<>>)
    /\ UNCHANGED <<is_running, reply, data, new_ids>>
    /\ UNCHANGED Loop
    /\ UNCHANGED Frame

reset_telemetry_dump ==
    /\ pc = "tel_dump"
    /\ fs' = WriteStorage(fs, data)
    /\ IF Encodable(data)
       THEN Finish("success", SuccessLines, SuccessBox)
       ELSE Finish("failure", FailureLines, FailureBox)
    /\ UNCHANGED <<is_running, reply, data, new_ids>>
    /\ UNCHANGED Loop
    /\ UNCHANGED Frame

(***************************************************************************)
(* deep_identity_cleanup                                                   *)
(***************************************************************************)
deep_identity_cleanup_dir ==
    /\ pc = "deep_dir"
    /\ IF ~Exists(fs, Root)
       THEN /\ Finish("failure", FailureLines, FailureBox)
            /\ UNCHANGED Loop
       ELSE /\ Goto("advanced", <<Line("advanced_begin")>>, <<>>)
            /\ count' = 0
            /\ EnterList("advanced", fs)
    /\ UNCHANGED <<fs, is_running, reply, data, new_ids>>
    /\ UNCHANGED Frame

(***************************************************************************)
(* one_click_reset / perform_full_reset                                    *)
(***************************************************************************)
StepStart(name) == L("step_start", <<name>>, 0)
StepDone(name) == L("step_done", <<name>>, 0)

\* NextPhase with the identity files cleaned before the caches.
NextPhase_IdentityFirst(o, phase, preserve) ==
    CASE phase = "telemetry" -> "identity"
      [] phase = "identity" -> "cache"
      [] phase = "cache" -> "network"
      [] phase = "network" -> "storage"
      [] phase = "storage" -> "advanced"
      [] phase = "advanced" -> "sockets"
      [] phase = "sockets" ->
            IF o = "deep_identity_cleanup" \/ preserve THEN "done" ELSE "chat_ws"
      [] phase = "chat_ws" -> "chat_dirs"
      [] phase = "chat_dirs" -> "chat_keys"
      [] OTHER -> "done"

\* The phase that follows a phase of perform_full_reset (deep_identity_cleanup
\* runs the advanced phases alone).
NextPhase(o, phase, preserve) ==
    CASE phase = "telemetry" -> "cache"
      [] phase = "cache" -> "identity"
      [] phase = "identity" -> "network"
      [] phase = "network" -> "storage"
      [] phase = "storage" -> "advanced"
      [] phase = "advanced" -> "sockets"
      [] phase = "sockets" ->
            IF o = "deep_identity_cleanup" \/ preserve THEN "done" ELSE "chat_ws"
      [] phase = "chat_ws" -> "chat_dirs"
      [] phase = "chat_dirs" -> "chat_keys"
      [] OTHER -> "done"

\* EndLines with the identity summary logged after each of its lists.
EndLines_SummaryPerList(phase, n) ==
    CASE phase = "cache" -> <<L("summary", <<"cache">>, n)>>
      [] phase \in {"identity", "network", "storage"} -> <<L("summary", <<"identity">>, n)>>
      [] phase = "sockets" -> <<L("summary", <<"advanced">>, n)>>
      [] OTHER -> <<>>

\* The lines logged when the list of a phase is finished.
EndLines(phase, n) ==
    CASE phase = "cache" -> <<L("summary", <<"cache">>, n)>>
      [] phase = "storage" -> <<L("summary", <<"identity">>, n)>>
      [] phase = "sockets" -> <<L("summary", <<"advanced">>, n)>>
      [] OTHER -> <<>>

\* The lines logged before a phase begins (or before the handler ends).
StartLines(o, to) ==
    CASE to = "cache" -> <<StepStart("cache")>>
      [] to = "identity" -> <<StepStart("identity")>>
      [] to = "advanced" -> <<StepStart("advanced"), Line("advanced_begin")>>
      [] to = "chat_ws" -> <<StepStart("chat_clear")>>
      [] to = "done" ->
            IF o = "one_click_reset"
            THEN <<StepStart("chat_keep"), StepDone("chat_keep")>> \o SuccessLines
            ELSE SuccessLines
      [] OTHER -> <<>>

\* ResetsCount with one counter carried through every list.
ResetsCount_Never(to) == FALSE

\* The phases that begin with their counter at 0.
ResetsCount(to) == to \in {"cache", "identity", "advanced", "chat_ws"}

\* full_reset_dir without the test of the data directory.
full_reset_dir_NoCheck ==
    /\ pc = "full_dir"
    /\ Goto("full_mid_open", <<StepStart("machineid")>>, <<>>)
    /\ UNCHANGED <<fs, is_running, reply, data, new_ids>>
    /\ UNCHANGED Loop
    /\ UNCHANGED Frame

full_reset_dir ==
    /\ pc = "full_dir"
    /\ IF ~Exists(fs, Root)
       THEN Finish("failure", FailureLines, FailureBox)
       ELSE Goto("full_mid_open", <<StepStart("machineid")>>, <<>>)
    /\ UNCHANGED <<fs, is_running, reply, data, new_ids>>
    /\ UNCHANGED Loop
    /\ UNCHANGED Frame

full_reset_machine_id_open ==
    /\ pc = "full_mid_open"
    /\ IF ~Exists(fs, MachineIdFile)
       THEN /\ Goto("full_tel_load", <<StepStart("telemetry")>>, <<>>)
            /\ UNCHANGED <<fs, new_ids>>
       ELSE IF OpenWriteFails(fs, denied, MachineIdFile)
       THEN /\ Finish("failure", FailureLines, FailureBox)
            /\ UNCHANGED <<fs, new_ids>>
       ELSE /\ new_ids' = <<Uuid4(fs, <<>>)>>
            /\ fs' = OpenWrite(fs, MachineIdFile)
            /\ Goto("full_mid_write", <<>>, <<>>)
    /\ UNCHANGED <<is_running, reply, data>>
    /\ UNCHANGED Loop
    /\ UNCHANGED Frame

full_reset_machine_id_write ==
    /\ pc = "full_mid_write"
    /\ fs' = WriteMachineId(fs, new_ids[1])
    /\ Goto("full_tel_load", <<StepDone("machineid"), StepStart("telemetry")>>, <<>>)
    /\ UNCHANGED <<is_running, reply, data, new_ids>>
    /\ UNCHANGED Loop
    /\ UNCHANGED Frame

full_reset_telemetry_load ==
    /\ pc = "full_tel_load"
    /\ LET br == TelemetryBranch(fs)
           to == NextPhase(op, "telemetry", preserve_chat)
       IN  CASE br = "no_file" ->
                  /\ Goto(to, StartLines(op, to), <<>>)
                  /\ count' = 0
                  /\ EnterList(to, fs)
                  /\ UNCHANGED <<data, new_ids>>
             [] br = "loaded" ->
                  /\ new_ids' = TelemetryIds(fs)
                  /\ data' = NewTelemetry(fs, new_ids')
                  /\ Goto("full_tel_open", <<>>, <<>>)
                  /\ UNCHANGED Loop
             [] OTHER ->
                  /\ Finish("failure", FailureLines, FailureBox)
                  /\ UNCHANGED <<data, new_ids>>
                  /\ UNCHANGED Loop
    /\ UNCHANGED <<fs, is_running, reply>>
    /\ UNCHANGED Frame

full_reset_telemetry_open ==
    /\ pc = "full_tel_open"
    /\ IF OpenWriteFails(fs, denied, StorageJsonFile)
       THEN /\ Finish("failure", FailureLines, FailureBox)
            /\ UNCHANGED fs
       ELSE /\ fs' = OpenWrite(fs, StorageJsonFile)
            /\ Goto("full_tel_dump", <<>>, <<>>)
    /\ UNCHANGED <<is_running, reply, data, new_ids>>
    /\ UNCHANGED Loop
    /\ UNCHANGED Frame

full_reset_telemetry_dump ==
    /\ pc = "full_tel_dump"
    /\ fs' = WriteStorage(fs, data)
    /\ IF Encodable(data)
       THEN LET to == NextPhase(op, "telemetry", preserve_chat)
            IN  /\ Goto(to, <<StepDone("telemetry")>> \o StartLines(op, to), <<>>)
                /\ count' = 0
                /\ EnterList(to, fs')
       ELSE /\ Finish("failure", FailureLines, FailureBox)
            /\ UNCHANGED Loop
    /\ UNCHANGED <<is_running, reply, data, new_ids>>
    /\ UNCHANGED Frame

(***************************************************************************)
(* The lists: one existing entry per step                                  *)
(***************************************************************************)
\* The line logged for an entry (the cache list logs none).
EntryLines(phase, e, ok) ==
    IF phase = "cache" THEN <<>>
    ELSE <<L(IF ok THEN "removed" ELSE "failed", e.path, 0)>>

remove_entry ==
    /\ pc \in ListPhases
    /\ LET es == Entries(pc, listing)
       IN  /\ idx <= Len(es)
           /\ \E out \in RemoveOutcomes(fs, denied, es[idx]) :
                 /\ fs' = out.fs
                 /\ count' = IF out.ok THEN count + 1 ELSE count
                 /\ idx' = NextPresent(es, out.fs, idx + 1)
                 /\ Goto(pc, EntryLines(pc, es[idx], out.ok), <<>>)
    /\ UNCHANGED <<is_running, reply, data, new_ids, listing>>
    /\ UNCHANGED Frame

list_end ==
    /\ pc \in ListPhases
    /\ idx > Len(Entries(pc, listing))
    /\ LET to == NextPhase(op, pc, preserve_chat)
           lines == EndLines(pc, count) \o StartLines(op, to)
       IN  IF to = "done"
           THEN /\ Finish("success", lines, SuccessBox)
                /\ UNCHANGED Loop
           ELSE IF to \in ListPhases
           THEN /\ Goto(to, lines, <<>>)
                /\ count' = IF ResetsCount(to) THEN 0 ELSE count
                /\ EnterList(to, fs)
           ELSE /\ Goto(to, lines, <<>>)
                /\ UNCHANGED Loop
    /\ UNCHANGED <<fs, is_running, reply, data, new_ids>>
    /\ UNCHANGED Frame

(***************************************************************************)
(* clear_chat_history: the keys of storage.json                            *)
(***************************************************************************)
UpperCase == <<"A","B","C","D","E","F","G","H","I","J","K","L","M",
               "N","O","P","Q","R","S","T","U","V","W","X","Y","Z">>
LowerCase == <<"a","b","c","d","e","f","g","h","i","j","k","l","m",
               "n","o","p","q","r","s","t","u","v","w","x","y","z">>

\* key.lower()
Lower(k) ==
    [i \in 1..Len(k) |->
        IF \E j \in 1..Len(UpperCase) : UpperCase[j] = k[i]
        THEN LowerCase[CHOOSE j \in 1..Len(UpperCase) : UpperCase[j] = k[i]]
        ELSE k[i]]

\* sub in s
Contains(s, sub) ==
    \E i \in 1..(Len(s) - Len(sub) + 1) : SubSeq(s, i, i + Len(sub) - 1) = sub

ChatWords ==
    {<<"c","h","a","t">>, <<"c","o","n","v","e","r","s","a","t","i","o","n">>,
     <<"h","i","s","t","o","r","y">>, <<"s","e","s","s","i","o","n">>}

\* IsChatKey with the key compared as it is written.
IsChatKey_CaseSensitive(k) == \E w \in ChatWords : Contains(k, w)

IsChatKey(k) == \E w \in ChatWords : Contains(Lower(k), w)

chat_keys(o) == {k \in DOMAIN o : IsChatKey(k)}

\* data after `del data[key]` for every chat key
StripChatKeys(o) == [k \in (DOMAIN o) \ chat_keys(o) |-> o[k]]

\* The end of clear_chat_history and of one_click_reset after it.
ChatEnd(lines, n) ==
    Finish("success", lines \o <<L("summary", <<"chat">>, n)>> \o SuccessLines, SuccessBox)

clear_chat_history_keys ==
    /\ pc = "chat_keys"
    /\ LET br == TelemetryBranch(fs)
       IN  CASE br = "no_file" ->
                  /\ ChatEnd(<<>>, count)
                  /\ UNCHANGED data
             [] br = "loaded" /\ chat_keys(JsonLoad(fs[StorageJsonFile].text).obj) = {} ->
                  /\ ChatEnd(<<>>, count)
                  /\ UNCHANGED data
             [] br = "loaded" /\ chat_keys(JsonLoad(fs[StorageJsonFile].text).obj) # {} ->
                  LET o == JsonLoad(fs[StorageJsonFile].text).obj
                  IN  /\ data' = StripChatKeys(o)
                      /\ \E ks \in Orderings(chat_keys(o)) :
                            Goto("chat_open",
                                 [i \in 1..Len(ks) |-> L("key_removed", ks[i], 0)], <<>>)
             [] OTHER ->
                  /\ ChatEnd(<<Line("chat_keys_failed")>>, count)
                  /\ UNCHANGED data
    /\ UNCHANGED <<fs, is_running, reply, new_ids>>
    /\ UNCHANGED Loop
    /\ UNCHANGED Frame

clear_chat_history_open ==
    /\ pc = "chat_open"
    /\ IF OpenWriteFails(fs, denied, StorageJsonFile)
       THEN /\ ChatEnd(<<Line("chat_keys_failed")>>, count)
            /\ UNCHANGED fs
       ELSE /\ fs' = OpenWrite(fs, StorageJsonFile)
            /\ Goto("chat_dump", <<>>, <<>>)
    /\ UNCHANGED <<is_running, reply, data, new_ids>>
    /\ UNCHANGED Loop
    /\ UNCHANGED Frame

clear_chat_history_dump ==
    /\ pc = "chat_dump"
    /\ fs' = WriteStorage(fs, data)
    /\ IF Encodable(data)
       THEN /\ count' = count + 1
            /\ ChatEnd(<<>>, count + 1)
       ELSE /\ count' = count
            /\ ChatEnd(<<Line("chat_keys_failed")>>, count)
    /\ UNCHANGED <<is_running, reply, data, new_ids, idx, listing>>
    /\ UNCHANGED Frame

(***************************************************************************)
(* The data directories the handlers start from                            *)
(***************************************************************************)
KeyOther == <<"o","t","h","e","r">>
KeyChat == <<"a","i","C","h","a","t",".","p","a","n","e","l">>
KeyNote == <<"n","o","t","e">>
KeySession == <<"l","a","s","t","S","E","S","S","I","O","N">>

\* storage.json as the application leaves it: both telemetry keys, an
\* unrelated key and two chat keys.
ObjFull ==
    [k \in {KeyMachineId, KeyDevDeviceId, KeyOther, KeyChat, KeySession} |->
        CASE k = KeyMachineId -> "x"
          [] k = KeyDevDeviceId -> "y"
          [] k = KeyOther -> "1"
          [] OTHER -> "hello"]
\* no telemetry key yet
ObjBare == [k \in {KeyOther} |-> "1"]
\* a value that cannot be written back
ObjSurrogate == [k \in {KeyOther, KeyNote} |-> IF k = KeyNote THEN LoneSurrogate ELSE "1"]

\* a number no double holds
ObjHuge ==
    [k \in {KeyOther, KeyMachineId, KeyDevDeviceId} |->
        CASE k = KeyOther -> HugeNumber
          [] k = KeyMachineId -> "x"
          [] OTHER -> "y"]

StorageTexts ==
    {PlainText("not json"), JsonArray, JsonObject(ObjFull, "app"),
     JsonObject(ObjBare, "app"), JsonObject(ObjSurrogate, "app"),
     JsonObject(ObjHuge, "app")}

Dirs(S) == [p \in S |-> DirNode]
Files(S) == [p \in S |-> FileNode(PlainText("data"))]

\* f and g together (g wins)
Merge(f, g) == [p \in (DOMAIN f) \cup (DOMAIN g) |-> IF p \in DOMAIN g THEN g[p] ELSE f[p]]

EmptyDir == Dirs({Root})

\* Entries of every list, and files no list names.
RichTree ==
    Merge(Dirs({Root, <<"Cache">>, <<"SharedClientCache">>, <<"SharedClientCache", "index">>,
                <<"Network">>, <<"Session Storage">>, <<"logs">>, <<"Crashpad">>,
                <<"CachedData">>, <<"User">>, <<"User", "History">>,
                <<"User", "workspaceStorage">>, <<"User", "workspaceStorage", "w1">>,
                <<"User", "workspaceStorage", "w1", "chatSessions">>}),
          Files({<<"SharedClientCache", ".info">>, <<"Network", "Cookies">>,
                 <<"Local State">>, <<"code.lock">>, <<"main.sock">>, <<".hidden.sock">>,
                 <<"keep.txt">>, <<"User", "workspaceStorage", "w1", "state.vscdb">>,
                 <<"User", "workspaceStorage", "w2.json">>}))

WithMachineId(f) == WithFile(f, MachineIdFile, PlainText("abc"))
WithStorage(f, t) ==
    WithFile(Merge(f, Dirs({<<"User">>, <<"User", "globalStorage">>})), StorageJsonFile, t)

InitTrees ==
    LET base == {EmptyDir, RichTree}
        mid == base \cup {WithMachineId(f) : f \in base}
    IN  {[p \in {} |-> DirNode]} \cup mid \cup {WithStorage(f, t) : f \in mid, t \in StorageTexts}

\* The refusals the host may make: none, or one path of the tree.
Deniable ==
    {MachineIdFile, StorageJsonFile, <<"Cache">>, <<"SharedClientCache", ".info">>,
     <<"Network", "Cookies">>, <<"User", "History">>}
InitDenied(f) == {{}} \cup {{p} : p \in Deniable \cap DOMAIN f}

\* In Spec the host is left open: every probe of a handler may meet any
\* host (check_qoder_running), and the data directory is Root whatever its
\* path.  host and ret are given values in HostSpec.
AnyHost == [system |-> "any"]
NoReturn == [fn |-> "none", raised |-> FALSE, path |-> <<>>, running |-> FALSE, pids |-> <<>>]

Init ==
    /\ fs \in InitTrees
    /\ denied \in InitDenied(fs)
    /\ qoder_running \in BOOLEAN
    /\ pc = "idle"
    /\ op = "none"
    /\ is_running = FALSE
    /\ reply = "none"
    /\ preserve_chat = FALSE
    /\ data = EmptyObj
    /\ new_ids = <<>>
    /\ idx = 0
    /\ listing = <<>>
    /\ count = 0
    /\ log = <<>>
    /\ boxes = <<>>
    /\ result = "none"
    /\ fs0 = fs
    /\ ops = 0
    /\ host = AnyHost
    /\ ret = NoReturn

Next ==
    \/ \E o \in Handlers : Invoke(o)
    \/ Return
    \/ QoderStarts
    \/ QoderStops
    \/ Probe
    \/ Question
    \/ reset_machine_id_open
    \/ reset_machine_id_write
    \/ reset_telemetry_load
    \/ reset_telemetry_open
    \/ reset_telemetry_dump
    \/ deep_identity_cleanup_dir
    \/ full_reset_dir
    \/ full_reset_machine_id_open
    \/ full_reset_machine_id_write
    \/ full_reset_telemetry_load
    \/ full_reset_telemetry_open
    \/ full_reset_telemetry_dump
    \/ remove_entry
    \/ list_end
    \/ clear_chat_history_keys
    \/ clear_chat_history_open
    \/ clear_chat_history_dump

Spec == Init /\ [][Next]_vars

(***************************************************************************)
(* The module-level functions on their own: get_qoder_data_dir and         *)
(* check_process_running called on every host                              *)
(***************************************************************************)
Homes == {<<"/", "home", "u">>, <<"C:", "Users", "u">>}
AppdataValues ==
    {Appdata(FALSE, <<>>), Appdata(TRUE, <<>>), Appdata(TRUE, <<"D:", "Profiles", "u">>)}

\* The hosts on which the target application is running or not.
Hosts(running) ==
    UNION {[system : {system}, home : Homes, appdata : AppdataValues,
            native : NativeOutcomes(system, running),
            fallback : FallbackOutcomes(running)] : system \in Systems}

HostInit ==
    /\ qoder_running \in BOOLEAN
    /\ host \in Hosts(qoder_running)
    /\ ret = NoReturn
    /\ fs \in {[p \in {} |-> DirNode], EmptyDir}
    /\ denied = {}
    /\ pc = "idle"
    /\ op = "none"
    /\ is_running = FALSE
    /\ reply = "none"
    /\ preserve_chat = FALSE
    /\ data = EmptyObj
    /\ new_ids = <<>>
    /\ idx = 0
    /\ listing = <<>>
    /\ count = 0
    /\ log = <<>>
    /\ boxes = <<>>
    /\ result = "none"
    /\ fs0 = fs
    /\ ops = 0

\* A call of get_qoder_data_dir()
call_get_qoder_data_dir ==
    /\ ret' = [NoReturn EXCEPT !.fn = "get_qoder_data_dir",
                               !.path = get_qoder_data_dir(host.system, host.home, host.appdata)]
    /\ UNCHANGED <<fs, denied, qoder_running, pc, op, is_running, reply, preserve_chat, data,
                   new_ids, idx, listing, count, log, boxes, result, fs0, ops, host>>

\* A call of check_process_running('Qoder')
call_check_process_running ==
    /\ LET r == check_process_running(host.system, host.native, host.fallback)
       IN  ret' = [NoReturn EXCEPT !.fn = "check_process_running", !.raised = r.raised,
                                   !.running = r.running, !.pids = r.pids]
    /\ UNCHANGED <<fs, denied, qoder_running, pc, op, is_running, reply, preserve_chat, data,
                   new_ids, idx, listing, count, log, boxes, result, fs0, ops, host>>

HostNext ==
    \/ call_get_qoder_data_dir
    \/ call_check_process_running

HostSpec == HostInit /\ [][HostNext]_vars

(***************************************************************************)
(* Properties                                                              *)
(***************************************************************************)
Last(sq) == sq[Len(sq)]
Range(sq) == {sq[i] : i \in 1..Len(sq)}
Names(sq) == {sq[i] : i \in 1..Len(sq)}

\* The paths on which two trees differ.
Changed(f, g) ==
    {p \in (DOMAIN f) \cup (DOMAIN g) : ~(p \in DOMAIN f /\ p \in DOMAIN g /\ f[p] = g[p])}

\* The probe made at this step reported `running`.
ProbeReports(running) ==
    /\ pc \in {"check", "recheck"}
    /\ pc' # pc
    /\ result' # "exception"
    /\ is_running' = running

\* C1 as stated: no write and no deletion of the four operations happens while
\* the target application is running, the application being free to start at
\* any moment.
C1_NoMutationWhileRunning == [][fs' # fs => ~qoder_running]_vars

\* C1 as amended: no write and no deletion happens unless the last probe of the
\* operation reported the target not running (the application may have been
\* started since).
C1_MutationOnlyAfterClearProbe ==
    [][fs' # fs =>
          /\ op \in Handlers
          /\ pc \notin {"idle", "check", "ask_close", "recheck", "confirm", "done"}
          /\ ~is_running]_vars

\* A file has been changed, after a probe that reported not running, and the
\* target application is running.
C1_Witness ==
    /\ pc \notin {"idle", "done"}
    /\ fs # fs0
    /\ ~is_running
    /\ qoder_running

\* C2: a probe that reports running at the check of reset_machine_id or
\* reset_telemetry, or at the re-check of deep_identity_cleanup or
\* one_click_reset, ends the operation with the still-running error and with
\* every file as it was.
C2_StillRunningAborts ==
    [][(/\ (pc = "recheck" \/ (pc = "check" /\ op \notin Confirmed))
        /\ ProbeReports(TRUE))
          => /\ pc' = "done"
             /\ result' = "still_running"
             /\ fs' = fs0
             /\ boxes' # <<>>
             /\ Last(boxes') = B("critical", "close_first", "Ok")
             /\ Last(log') = Line("still_running")]_vars

\* one_click_reset has ended with the still-running error after the operator
\* answered Yes to the request to close the application.
C2_Witness ==
    /\ pc = "done"
    /\ op = "one_click_reset"
    /\ result = "still_running"
    /\ reply = "Yes"
    /\ is_running

AnsweredYes(about) == \E i \in 1..Len(boxes) : boxes[i] = B("question", about, "Yes")

\* C3: deep_identity_cleanup and one_click_reset change no file before the
\* operator answered Yes to the final question; a first probe that reports
\* running leads to the request to close, a Yes to it leads to the second
\* probe, and the final question is shown only after a probe that reported not
\* running; any No ends the operation with every file as it was.
C3_ConfirmationProtocol ==
    [][/\ (op \in Confirmed /\ fs' # fs) => AnsweredYes("confirm")
       /\ (pc = "check" /\ op \in Confirmed /\ ProbeReports(TRUE)) => pc' = "ask_close"
       /\ (pc' = "recheck" /\ pc # "recheck") => (pc = "ask_close" /\ reply' = "Yes")
       /\ (pc' = "confirm" /\ pc # "confirm") =>
             \/ pc = "check" /\ ProbeReports(FALSE) /\ boxes' = <<>>
             \/ /\ pc = "recheck"
                /\ ProbeReports(FALSE)
                /\ boxes' = <<B("question", "ask_close", "Yes")>>
       /\ (pc \in {"ask_close", "confirm"} /\ pc' # pc /\ reply' # "Yes") =>
             (pc' = "done" /\ result' = "cancelled" /\ fs' = fs0)]_vars

\* one_click_reset has changed files after the request to close and the final
\* question were both answered Yes.
C3_Witness ==
    /\ pc = "done"
    /\ op = "one_click_reset"
    /\ result = "success"
    /\ boxes[1] = B("question", "ask_close", "Yes")
    /\ boxes[2] = B("question", "confirm", "Yes")
    /\ fs # fs0

\* The step of perform_full_reset a position belongs to (0: none).
FullStep(at) ==
    CASE at \in {"full_mid_open", "full_mid_write"} -> 1
      [] at \in {"full_tel_load", "full_tel_open", "full_tel_dump"} -> 2
      [] at = "cache" -> 3
      [] at = "identity" -> 4
      [] at = "network" -> 5
      [] at = "storage" -> 6
      [] at \in {"advanced", "sockets"} -> 7
      [] at \in {"chat_ws", "chat_dirs", "chat_keys", "chat_open", "chat_dump"} -> 8
      [] OTHER -> 0

\* The paths a step of perform_full_reset is about.
StepTargets(n, p) ==
    CASE n = 1 -> p = MachineIdFile
      [] n = 2 -> p = StorageJsonFile
      [] n = 3 -> p[1] \in Names(cache_dirs)
      [] n = 4 -> Len(p) = 1 /\ p[1] \in Names(identity_files)
      [] n = 5 -> Len(p) = 2 /\ p[1] = "Network" /\ p[2] \in Names(network_files)
      [] n = 6 -> p[1] \in Names(storage_dirs)
      [] n = 7 ->
            \/ Len(p) = 1 /\ p[1] \in Names(system_files) \cup {"Crashpad"}
            \/ Len(p) = 1 /\ MatchesSockPattern(p[1])
            \/ p[1] \in Names(cached_dirs)
            \/ Len(p) >= 2 /\ p[1] = "SharedClientCache"
      [] n = 8 ->
            \/ p = StorageJsonFile
            \/ p[1] = "Session Storage"
            \/ IsPrefix(<<"User", "History">>, p)
            \/ IsPrefix(workspace_storage, p)
      [] OTHER -> FALSE

\* C4: perform_full_reset goes through its steps in the order machine ID,
\* telemetry, caches, root identity files, Network files, storage
\* directories, advanced cleanup, chat step; it never goes back or skips a
\* step, and while it is in a step it touches only that step's paths.
C4_StepOrder ==
    [][/\ (op = "one_click_reset" /\ pc # pc') =>
          /\ pc = "full_dir" => pc' \in {"done", "full_mid_open"}
          /\ FullStep(pc) > 0 =>
                \/ FullStep(pc') \in {FullStep(pc), FullStep(pc) + 1}
                \/ pc' = "done" /\ (result' = "success" => FullStep(pc) >= 7)
          /\ (preserve_chat /\ FullStep(pc) > 0) => FullStep(pc') # 8
          /\ FullStep(pc') > 0 => (pc = "full_dir" \/ FullStep(pc) > 0)
       /\ (op = "one_click_reset" /\ fs' # fs) =>
             \A p \in Changed(fs, fs') : StepTargets(FullStep(pc), p)]_vars

\* perform_full_reset has gone through every step and each had something to do.
C4_Witness ==
    /\ pc = "done"
    /\ op = "one_click_reset"
    /\ result = "success"
    /\ ~preserve_chat
    /\ MachineIdFile \in Changed(fs0, fs)
    /\ StorageJsonFile \in Changed(fs0, fs)
    /\ {<<"Cache">>, <<"Local State">>, <<"Network", "Cookies">>, <<"logs">>,
        <<"Crashpad">>, <<"main.sock">>, <<"User", "History">>} \subseteq Changed(fs0, fs)

\* The handler got past its probes and questions and has returned.
Ran(o) == pc = "done" /\ op = o /\ result \in {"success", "warning", "failure"}

Storage(f) == f[StorageJsonFile].text
TelemetryKeys == {KeyMachineId, KeyDevDeviceId}

\* C5: after a successful reset_telemetry, storage.json holds an object with
\* telemetry.machineId a 64-digit hex string and telemetry.devDeviceId a UUID,
\* and with every other key of the prior object at its prior value, no key
\* added or removed besides those two.
C5_TelemetryRewrite ==
    (Ran("reset_telemetry") /\ result = "success") =>
        /\ Storage(fs).form = "object"
        /\ DOMAIN Storage(fs).obj = (DOMAIN Storage(fs0).obj) \cup TelemetryKeys
        /\ Storage(fs).obj[KeyMachineId] \in Hex64Strings
        /\ Storage(fs).obj[KeyDevDeviceId] \in UuidStrings
        /\ \A k \in (DOMAIN Storage(fs0).obj) \ TelemetryKeys :
              Storage(fs).obj[k] = Storage(fs0).obj[k]

\* C6: after a successful reset_machine_id, the machine-ID file holds one
\* UUID string and nothing else, different from what it held, and no other
\* path of the data directory has changed.
C6_MachineIdRewrite ==
    (Ran("reset_machine_id") /\ result = "success") =>
        /\ Exists(fs0, MachineIdFile)
        /\ fs[MachineIdFile].text.form = "plain"
        /\ fs[MachineIdFile].text.str \in UuidStrings
        /\ fs[MachineIdFile].text # fs0[MachineIdFile].text
        /\ Changed(fs0, fs) = {MachineIdFile}

\* reset_machine_id has succeeded on a machine-ID file that held a UUID.
C6_Witness ==
    /\ Ran("reset_machine_id")
    /\ result = "success"
    /\ fs0[MachineIdFile].text.str \in UuidStrings

\* C7 as stated: without the data directory, or with the data directory but
\* without the machine-ID file, reset_machine_id and the machine-ID step of
\* perform_full_reset end in failure (a warning counted as one) with no file
\* created or changed.
C7_MissingFileFails ==
    /\ (Ran("reset_machine_id") /\ ~Exists(fs0, MachineIdFile)) =>
          (result \in {"failure", "warning"} /\ fs = fs0)
    /\ (Ran("one_click_reset") /\ ~Exists(fs0, MachineIdFile)) =>
          /\ result = "failure"
          /\ StepStart("telemetry") \notin Range(log)
          /\ fs = fs0

\* C7 as amended: reset_machine_id ends with an error without the data
\* directory and with a warning without the machine-ID file, no file created
\* or changed; perform_full_reset ends in failure before touching any file
\* without the data directory, but passes over a missing machine-ID file: it
\* does not fail for it, goes on to the telemetry step, and never creates it.
C7_MissingFileHandling ==
    /\ (Ran("reset_machine_id") /\ ~Exists(fs0, MachineIdFile)) =>
          /\ result = (IF Exists(fs0, Root) THEN "warning" ELSE "failure")
          /\ fs = fs0
    /\ (Ran("one_click_reset") /\ ~Exists(fs0, Root)) =>
          (result = "failure" /\ fs = fs0)
    /\ (Ran("one_click_reset") /\ Exists(fs0, Root) /\ ~Exists(fs0, MachineIdFile)) =>
          /\ StepStart("telemetry") \in Range(log)
          /\ StepDone("machineid") \notin Range(log)
    /\ (op \in {"reset_machine_id", "one_click_reset"} /\ ~Exists(fs0, MachineIdFile)) =>
          ~Exists(fs, MachineIdFile)

\* perform_full_reset has succeeded, and changed files, in a data directory
\* without a machine-ID file.
C7_Witness ==
    /\ Ran("one_click_reset")
    /\ result = "success"
    /\ Exists(fs0, Root)
    /\ ~Exists(fs0, MachineIdFile)
    /\ fs # fs0

\* storage.json is there and is not JSON.
Malformed(f) ==
    /\ Exists(f, StorageJsonFile)
    /\ ~f[StorageJsonFile].dir
    /\ JsonLoad(Storage(f)).raised

\* perform_full_reset got to its telemetry step.
AtTelemetryStep == StepStart("telemetry") \in Range(log)

\* C8 as stated: with storage.json absent or not JSON, reset_telemetry and the
\* telemetry step of perform_full_reset end in a failure shown to the
\* operator and leave storage.json as it was.
C8_BadStorageFails ==
    (/\ Ran("reset_telemetry") \/ (Ran("one_click_reset") /\ AtTelemetryStep)
     /\ ~Exists(fs0, StorageJsonFile) \/ Malformed(fs0))
        => /\ result = "failure"
           /\ Last(boxes) = B("critical", "failed", "Ok")
           /\ StorageJsonFile \notin Changed(fs0, fs)

\* C8 as amended: reset_telemetry ends in a failure shown to the operator,
\* every file as it was, when storage.json is absent or not JSON; the
\* telemetry step of perform_full_reset does the same (storage.json as it
\* was) when storage.json is not JSON, but passes over an absent storage.json:
\* perform_full_reset goes on with the cache step and succeeds, and
\* storage.json is never created.
C8_BadStorageHandling ==
    /\ (Ran("reset_telemetry") /\ (~Exists(fs0, StorageJsonFile) \/ Malformed(fs0))) =>
          /\ result = "failure"
          /\ Last(boxes) = B("critical", "failed", "Ok")
          /\ fs = fs0
    /\ (Ran("one_click_reset") /\ AtTelemetryStep /\ Malformed(fs0)) =>
          /\ result = "failure"
          /\ Last(boxes) = B("critical", "failed", "Ok")
          /\ StorageJsonFile \notin Changed(fs0, fs)
    /\ (Ran("one_click_reset") /\ AtTelemetryStep /\ ~Exists(fs0, StorageJsonFile)) =>
          /\ result = "success"
          /\ StepStart("cache") \in Range(log)
    /\ (op \in {"reset_telemetry", "one_click_reset"} /\ ~Exists(fs0, StorageJsonFile)) =>
          ~Exists(fs, StorageJsonFile)

\* perform_full_reset has succeeded, after rewriting the machine ID, in a data
\* directory without storage.json.
C8_Witness ==
    /\ Ran("one_click_reset")
    /\ result = "success"
    /\ ~Exists(fs0, StorageJsonFile)
    /\ MachineIdFile \in Changed(fs0, fs)

\* C9: once a handler that rewrites storage.json has returned, storage.json
\* holds its complete prior content or a complete newly written object.
C9_AllOrNothing ==
    (pc = "done" /\ Exists(fs0, StorageJsonFile)) =>
        \/ Storage(fs) = Storage(fs0)
        \/ Storage(fs).form = "object" /\ Storage(fs).style = "indent4"

\* The entries the lists of a handler name in the tree f.
AppliedPhases(o, preserve) ==
    IF o = "deep_identity_cleanup" THEN {"advanced", "sockets"}
    ELSE {"cache", "identity", "network", "storage", "advanced", "sockets"}
            \cup (IF preserve THEN {} ELSE {"chat_ws", "chat_dirs"})
AppliedEntries(o, preserve, f) ==
    UNION {Range(Entries(ph, CHOOSE ls \in Listings(ph, f) : TRUE)) :
              ph \in AppliedPhases(o, preserve)}

\* The host lets entry e of tree f be removed.
Permitted(f, dn, e) ==
    IF e.how = "unlink" THEN ~UnlinkFails(f, dn, e.path) ELSE ~RmtreeFails(f, dn, e.path)

\* C10: the lists are best-effort. When deep_identity_cleanup or
\* one_click_reset has gone through its lists, every entry that existed and
\* that the host let be removed is gone, whatever failed before it; a failure
\* is logged only for an entry that existed and was refused; and no removal
\* failure turns the outcome into a failure.
C10_BestEffort ==
    (pc = "done" /\ op \in Confirmed /\ result \in {"success", "failure"}) =>
        LET es == AppliedEntries(op, preserve_chat, fs0)
        IN  /\ result = "success" =>
                  \A e \in es :
                      (Present(fs0, e) /\ Permitted(fs0, denied, e)) => ~Exists(fs, e.path)
            /\ \A i \in 1..Len(log) :
                  log[i].ev = "failed" =>
                      /\ result = "success"
                      /\ \E e \in es :
                            /\ e.path = log[i].arg
                            /\ Present(fs0, e)
                            /\ ~Permitted(fs0, denied, e)

\* one_click_reset has logged a failed removal in the Network list and has
\* removed entries of the later lists.
C10_Witness ==
    /\ pc = "done"
    /\ op = "one_click_reset"
    /\ result = "success"
    /\ L("failed", <<"Network", "Cookies">>, 0) \in Range(log)
    /\ Exists(fs, <<"Network", "Cookies">>)
    /\ {<<"logs">>, <<"Crashpad">>, <<"main.sock">>} \subseteq Changed(fs0, fs)

\* The lists that share one counter and one summary line.
ProfilePhases(name) ==
    CASE name = "cache" -> {"cache"}
      [] name = "identity" -> {"identity", "network", "storage"}
      [] name = "advanced" -> {"advanced", "sockets"}
      [] OTHER -> {}

\* The entries of a profile that exist in tree f.
PresentEntries(name, f) ==
    {e \in UNION {Range(Entries(ph, CHOOSE ls \in Listings(ph, f) : TRUE)) :
                     ph \in ProfilePhases(name)} : Present(f, e)}

\* The paths that go when the profile is applied to f and nothing is refused.
Removed(name, f) ==
    {p \in DOMAIN f : \E e \in PresentEntries(name, f) : IsPrefix(e.path, p)}

\* The profiles a handler applies, in its order, and the tree each one meets
\* when the earlier ones removed all they found.
Profiles(o) ==
    IF o = "deep_identity_cleanup" THEN <<"advanced">>
    ELSE <<"cache", "identity", "advanced">>
RECURSIVE TreeBefore(_, _, _)
TreeBefore(o, f, i) ==
    IF i = 1 THEN f
    ELSE LET g == TreeBefore(o, f, i - 1)
         IN  Without(g, Removed(Profiles(o)[i - 1], g))

\* Nothing the handler's lists find in f is refused.
AllPermitted(o, preserve, f, dn) ==
    \A e \in AppliedEntries(o, preserve, f) : Present(f, e) => Permitted(f, dn, e)

ChatArtifacts(f) ==
    {p \in DOMAIN f :
        \/ \E w \in WorkspaceDirs(f) :
              \/ IsPrefix(w \o <<"chatSessions">>, p)
              \/ IsPrefix(w \o <<"chatEditingSessions">>, p)
        \/ \E i \in 1..Len(chat_dirs) : IsPrefix(chat_dirs[i].path, p)}

\* The members of storage.json in f that clear_chat_history deletes.
ChatMembers(f) ==
    IF Exists(f, StorageJsonFile) /\ f[StorageJsonFile].text.form = "object"
    THEN [k \in chat_keys(f[StorageJsonFile].text.obj) |-> f[StorageJsonFile].text.obj[k]]
    ELSE EmptyObj

\* C12: when perform_full_reset has run to its end with preserve_chat set,
\* every path that clear_chat_history would remove is there as it was, and
\* every chat key of storage.json is there with its value.
C12_ChatPreserved ==
    (Ran("one_click_reset") /\ result = "success" /\ preserve_chat) =>
        /\ \A p \in ChatArtifacts(fs0) : Exists(fs, p) /\ fs[p] = fs0[p]
        /\ ChatMembers(fs) = ChatMembers(fs0)

\* Two characters that are the same letter, whatever their case.
SameLetter(a, b) ==
    a = b \/ \E n \in 1..Len(UpperCase) : {a, b} = {UpperCase[n], LowerCase[n]}

\* The name k holds one of the four words, letter case aside.
NamesChat(k) ==
    \E w \in ChatWords : \E i \in 1..Len(k) :
        /\ i + Len(w) - 1 <= Len(k)
        /\ \A j \in 1..Len(w) : SameLetter(k[i + j - 1], w[j])

\* C13: the object that clear_chat_history writes back to storage.json has
\* no key that holds chat, conversation, history or session in any letter
\* case, and has every other key of the object it read, at its value; a
\* storage.json without such a key is not rewritten.
C13_ChatKeysStripped ==
    [][/\ (pc = "chat_keys" /\ pc' = "chat_open") =>
             LET o == fs[StorageJsonFile].text.obj
             IN  /\ fs[StorageJsonFile].text.form = "object"
                 /\ \E k \in DOMAIN o : NamesChat(k)
                 /\ DOMAIN data' = {k \in DOMAIN o : ~NamesChat(k)}
                 /\ \A k \in DOMAIN data' : data'[k] = o[k]
       /\ (pc = "chat_keys" /\ pc' = "done") =>
             /\ fs' = fs
             /\ (Exists(fs, StorageJsonFile) /\ fs[StorageJsonFile].text.form = "object") =>
                   \A k \in DOMAIN fs[StorageJsonFile].text.obj : ~NamesChat(k)
       /\ pc = "chat_open" => data' = data
       /\ (pc = "chat_dump" /\ pc' = "done" /\ Line("chat_keys_failed") \notin Range(log')) =>
             /\ fs'[StorageJsonFile].text.form = "object"
             /\ fs'[StorageJsonFile].text.obj = data]_vars

\* clear_chat_history has rewritten a storage.json that held chat keys in
\* mixed and in upper case: they are gone and the other keys are there.
C13_Witness ==
    /\ pc = "done"
    /\ op = "one_click_reset"
    /\ result = "success"
    /\ ~preserve_chat
    /\ Line("chat_keys_failed") \notin Range(log)
    /\ Exists(fs0, StorageJsonFile)
    /\ {KeyChat, KeySession} \subseteq DOMAIN fs0[StorageJsonFile].text.obj
    /\ fs[StorageJsonFile].text.form = "object"
    /\ DOMAIN fs[StorageJsonFile].text.obj = {KeyMachineId, KeyDevDeviceId, KeyOther}
    /\ fs[StorageJsonFile].text.obj[KeyOther] = "1"

\* C14: when perform_full_reset has returned, every removal that was refused
\* in one of its lists has its failure line in the log, once, and the lists
\* went on to the end; the handler ended in failure only before the first
\* list, at the data directory, the machine-ID file or storage.json.
C14_FailuresRecorded ==
    (pc = "done" /\ op = "one_click_reset" /\ result \in {"success", "failure"}) =>
        /\ result = "success" =>
              \A e \in AppliedEntries(op, preserve_chat, fs0) :
                  (Present(fs0, e) /\ ~Permitted(fs0, denied, e)) =>
                      L("failed", e.path, 0) \in Range(log)
        /\ \A i, j \in 1..Len(log) : (log[i].ev = "failed" /\ log[i] = log[j]) => i = j
        /\ result = "failure" => StepStart("cache") \notin Range(log)

\* C15: without the data directory, perform_full_reset ends at once in the
\* failure shown to the operator: no file is written or removed and no step
\* is started.
C15_NoDataDirFails ==
    (Ran("one_click_reset") /\ ~Exists(fs0, Root)) =>
        /\ result = "failure"
        /\ fs = fs0
        /\ \A i \in 1..Len(log) : log[i].ev \notin {"step_start", "step_done", "summary"}
        /\ Last(log) = Line("failure")
        /\ Last(boxes) = B("critical", "failed", "Ok")

\* one_click_reset has been confirmed and has failed where there is no data
\* directory.
C15_Witness ==
    /\ Ran("one_click_reset")
    /\ ~Exists(fs0, Root)
    /\ AnsweredYes("confirm")
    /\ result = "failure"

\* C16: whatever the native command and psutil do, check_process_running
\* returns its pair: no handler is ended by an exception from its probe.
C16_ProbeNeverRaises == pc = "done" => result # "exception"

\* The data directory holds machineid and a storage.json with both telemetry
\* keys and other keys, and nothing is refused.
FullResetReady ==
    /\ Exists(fs0, MachineIdFile)
    /\ Exists(fs0, StorageJsonFile)
    /\ Storage(fs0).form = "object"
    /\ TelemetryKeys \subseteq DOMAIN Storage(fs0).obj
    /\ DOMAIN Storage(fs0).obj # TelemetryKeys
    /\ denied = {}
    /\ AllPermitted("one_click_reset", TRUE, fs0, denied)

\* C17: from such a data directory, perform_full_reset with preserve_chat set
\* ends with a new UUID in machineid, with new telemetry.machineId and
\* telemetry.devDeviceId in storage.json and every other key at its value,
\* and with none of the cache directories left.
C17_FullResetEndToEnd ==
    (Ran("one_click_reset") /\ preserve_chat /\ FullResetReady) =>
        /\ result = "success"
        /\ fs[MachineIdFile].text.str \in UuidStrings
        /\ fs[MachineIdFile].text # fs0[MachineIdFile].text
        /\ Storage(fs).form = "object"
        /\ DOMAIN Storage(fs).obj = DOMAIN Storage(fs0).obj
        /\ Storage(fs).obj[KeyMachineId] \in Hex64Strings
        /\ Storage(fs).obj[KeyDevDeviceId] \in UuidStrings
        /\ \A k \in TelemetryKeys : Storage(fs).obj[k] # Storage(fs0).obj[k]
        /\ \A k \in (DOMAIN Storage(fs0).obj) \ TelemetryKeys :
              Storage(fs).obj[k] = Storage(fs0).obj[k]
        /\ \A i \in 1..Len(cache_dirs) : ~Exists(fs, <<cache_dirs[i]>>)

\* C18: get_qoder_data_dir returns, for every OS, home directory and APPDATA
\* and whether or not the directory exists: <home>/Library/Application
\* Support/Qoder on macOS; on Windows <APPDATA>/Qoder when APPDATA is set and
\* not empty, <home>/AppData/Roaming/Qoder otherwise; <home>/.config/Qoder on
\* Linux; <home>/Qoder elsewhere.  It raises nothing.
C18_DataDirTable ==
    ret.fn = "get_qoder_data_dir" =>
        /\ ~ret.raised
        /\ host.system = "Darwin" =>
              ret.path = host.home \o <<"Library", "Application Support", "Qoder">>
        /\ (host.system = "Windows" /\ host.appdata.set /\ host.appdata.path # <<>>) =>
              ret.path = host.appdata.path \o <<"Qoder">>
        /\ (host.system = "Windows" /\ ~(host.appdata.set /\ host.appdata.path # <<>>)) =>
              ret.path = host.home \o <<"AppData", "Roaming", "Qoder">>
        /\ host.system = "Linux" => ret.path = host.home \o <<".config", "Qoder">>
        /\ host.system \notin {"Darwin", "Windows", "Linux"} =>
              ret.path = host.home \o <<"Qoder">>

\* get_qoder_data_dir has returned on Windows with APPDATA set to the empty
\* string and no data directory there.
C18_Witness ==
    /\ ret.fn = "get_qoder_data_dir"
    /\ host.system = "Windows"
    /\ host.appdata = Appdata(TRUE, <<>>)
    /\ ret.path = <<"C:", "Users", "u", "AppData", "Roaming", "Qoder">>
    /\ ~Exists(fs, Root)

\* The start and completion lines of the log, in their order, without counts.
IsStepEvent(l) == l.ev \in {"step_start", "step_done", "summary"}
StepEvents(lg) ==
    LET ev == SelectSeq(lg, IsStepEvent)
    IN  [i \in 1..Len(ev) |-> <<ev[i].ev, ev[i].arg[1]>>]

\* How often x occurs in sq, and where first.
Occurrences(sq, x) == Cardinality({i \in 1..Len(sq) : sq[i] = x})
Position(sq, x) == CHOOSE i \in 1..Len(sq) : sq[i] = x /\ \A j \in 1..(i - 1) : sq[j] # x

\* The steps of perform_full_reset with the start and the completion line
\* each would log.
StepNames(preserve) ==
    <<"machineid", "telemetry", "cache", "identity", "storage", "advanced",
      IF preserve THEN "chat_keep" ELSE "chat">>
StartOf(step) == <<"step_start", IF step = "chat" THEN "chat_clear" ELSE step>>
EndOf(step) ==
    <<IF step \in {"machineid", "telemetry", "chat_keep"} THEN "step_done" ELSE "summary", step>>

ExpectedEvents(f, preserve) ==
    <<StartOf("machineid")>>
        \o (IF Exists(f, MachineIdFile) THEN <<EndOf("machineid")>> ELSE <<>>)
        \o <<StartOf("telemetry")>>
        \o (IF Exists(f, StorageJsonFile) THEN <<EndOf("telemetry")>> ELSE <<>>)
        \o <<StartOf("cache"), EndOf("cache"), StartOf("identity"), EndOf("identity"),
             StartOf("advanced"), EndOf("advanced")>>
        \o (IF preserve THEN <<StartOf("chat_keep"), EndOf("chat_keep")>>
            ELSE <<StartOf("chat"), EndOf("chat")>>)

NativeFailed(h) ==
    \/ h.system \notin {"Darwin", "Linux", "Windows"}
    \/ h.native.raises
    \/ h.system \in {"Darwin", "Linux"} /\ h.native.returncode \notin {0, 1}
    \/ h.system = "Windows" /\ h.native.returncode # 0

\* C20: when the native command is not there or has failed and psutil lists
\* the running target, check_process_running returns True with the PIDs
\* psutil found.
C20_FallbackOnNativeFailure ==
    (/\ ret.fn = "check_process_running"
     /\ qoder_running
     /\ NativeFailed(host)
     /\ host.fallback.state = "listed") =>
        /\ ~ret.raised
        /\ ret.running
        /\ ret.pids = host.fallback.pids

\* The paths perform_advanced_identity_cleanup is said to remove, each with
\* all it holds: five names inside SharedClientCache and five of the data
\* directory.
AdvancedNamed ==
    {<<"SharedClientCache", ".info">>, <<"SharedClientCache", ".lock">>,
     <<"SharedClientCache", "mcp.json">>, <<"SharedClientCache", "index">>,
     <<"SharedClientCache", "cache">>, <<"code.lock">>, <<"languagepacks.json">>,
     <<"Crashpad">>, <<"CachedData">>, <<"CachedProfilesData">>}

\* p is one of those paths, or inside one, or a .sock file of the data
\* directory that is in the listing ls.
AdvancedTarget(p, ls) ==
    \/ \E e \in AdvancedNamed : IsPrefix(e, p)
    \/ /\ Len(p) = 1
       /\ \E st \in SockStems : p[1] = st \o ".sock"
       /\ \E i \in 1..Len(ls) : ls[i] = p

\* The paths deep_identity_cleanup is said never to touch.
AdvancedKept(f) ==
    {p \in DOMAIN f :
        p \in {MachineIdFile, StorageJsonFile, <<"SharedClientCache">>} \/ IsPrefix(<<"User">>, p)}

====
